---- MODULE Spec2Model ----
(***************************************************************************)
(* Model of src/app.py, the F1 driver style analyzer: the four telemetry   *)
(* metrics, the per-driver profiling (get_driver_telemetry and             *)
(* analyze_driver_style), the comparison that main() displays, and the     *)
(* Streamlit page main() with its session state.                           *)
(*                                                                         *)
(* A floating point value is NaN, an infinity, or a real number: a         *)
(* rational n/d or a signed square root of a rational (a standard          *)
(* deviation that is not rational).  The real number is the value without  *)
(* its rounding error.  A value computed with rounding carries in src the  *)
(* operands it was computed from and in mag an integer bound of the        *)
(* magnitudes that entered the computation: its double lies within         *)
(* mag / RoundingGuard of the real number.  Two values with the same       *)
(* operands are the same double.  Two values from different operands whose *)
(* real numbers are closer than the two bounds together may be doubles in  *)
(* either order, or equal; this includes a sum whose real number is 0.     *)
(* Real numbers further apart are doubles in the same order.  Time stamps  *)
(* are integers in milliseconds.                                           *)
(***************************************************************************)
EXTENDS Integers, Sequences, FiniteSets, TLC

VARIABLES
    \* SpecMetrics: a telemetry frame and the metrics computed from it
    telemetry, metrics,
    \* SpecProfile: the arguments of analyze_driver_style and its outcome
    argSession, argDriver, profileOut,
    \* SpecCompare: two metrics dictionaries, the order of their doubles where
    \* rounding decides it, and their comparison in both orders
    profileA, profileB, rounding, cmpAB, cmpBA,
    \* Spec: st.session_state, the widgets and the page of the current script run
    session, drivers, driver1, driver2, pc, run,
    result1, result2, calls, returned, errors, rendered, comparison, uncaught

metricsVars == <<telemetry, metrics>>

profileVars == <<argSession, argDriver, profileOut>>

compareVars == <<profileA, profileB, rounding, cmpAB, cmpBA>>

stateVars == <<session, drivers>>

widgetVars == <<driver1, driver2>>

pageVars == <<result1, result2, calls, returned, errors, rendered, comparison, uncaught>>

mainVars == <<stateVars, widgetVars, pc, run, pageVars>>

vars == <<metricsVars, profileVars, compareVars, mainVars>>

----------------------------------------------------------------------------
(* Floating point values *)

Abs(x) == IF x < 0 THEN -x ELSE x

Sign(x) == IF x < 0 THEN -1 ELSE IF x > 0 THEN 1 ELSE 0

RECURSIVE GCD(_, _)
GCD(a, b) == IF b = 0 THEN a ELSE GCD(b, a % b)

NaN == [k |-> "nan", n |-> 0, d |-> 1, src |-> <<>>, mag |-> 0]

PosInf == [k |-> "inf", n |-> 1, d |-> 1, src |-> <<>>, mag |-> 0]

NegInf == [k |-> "inf", n |-> -1, d |-> 1, src |-> <<>>, mag |-> 0]

\* the rational n/d (d # 0) in lowest terms with a positive denominator
Rat(n, d) ==
    LET g == GCD(Abs(n), Abs(d))
        s == IF d < 0 THEN -1 ELSE 1
    IN  [k |-> "rat", n |-> (s * n) \div g, d |-> Abs(d) \div g, src |-> <<>>, mag |-> 0]

Zero == Rat(0, 1)

IsNaN(v) == v.k = "nan"

IsInf(v) == v.k = "inf"

IsRat(v) == v.k = "rat"

IsSurd(v) == v.k = "surd"

IsFinite(v) == v.k \in {"rat", "surd", "sub", "tiny"}

\* the real number of a value, without the operands it was computed from
Exact(v) == [v EXCEPT !.src = <<>>, !.mag = 0]

\* an integer above the absolute value of a rational
Magnitude(v) == 1 + (Abs(v.n) \div v.d)

\* the result v of a computation with rounding on the operands src, of
\* magnitudes up to mag; NaN and the infinities are what they are
Rounded(v, src, mag) ==
    IF v.k \in {"rat", "surd"} THEN [v EXCEPT !.src = src, !.mag = mag] ELSE v

\* a result that is 0.0 without rounding (the difference of two equal doubles,
\* 0.0 divided, the deviation of equal integers), or else a rounded one
RoundedUnlessZero(v, src, mag) ==
    IF v.k = "rat" /\ v.n = 0 THEN v ELSE Rounded(v, src, mag)

\* the rounding error of a computed double is far below mag / RoundingGuard:
\* some thousand operations of relative error 2^-53 each
RoundingGuard == 2 ^ 30

\* a difference of the size of a rounding error, of sign o
Tiny(o) == [k |-> IF o = 0 THEN "rat" ELSE "tiny", n |-> o, d |-> 1, src |-> <<>>, mag |-> 0]

\* |x - y| <= m / RoundingGuard for rationals x and y and an integer m
Within(x, y, m) ==
    LET diff == Abs(x.n * y.d - y.n * x.d)
    IN  diff = 0 \/ (m * x.d * y.d) \div diff >= RoundingGuard

\* unary minus of a float
Neg(v) ==
    CASE v.k = "nan" -> v
      [] v.k = "sub" -> [k |-> "sub", a |-> v.b, b |-> v.a, src |-> <<>>, mag |-> 0]
      [] OTHER -> [v EXCEPT !.n = -v.n]

\* x -> sgn(x) * x^2 as a rational: a strictly monotone key of a rational or surd
SignedSquare(v) ==
    IF v.k = "rat" THEN Rat(Sign(v.n) * v.n * v.n, v.d * v.d)
    ELSE Rat(v.n, v.d)

RatLess(a, b) == a.n * b.d < b.n * a.d

\* a < b of floats: False whenever a NaN is involved
Lt(a, b) ==
    CASE IsNaN(a) \/ IsNaN(b) -> FALSE
      [] IsInf(a) /\ IsInf(b) -> a.n < b.n
      [] IsInf(a) -> a.n < 0
      [] IsInf(b) -> b.n > 0
      [] IsRat(a) /\ IsRat(b) -> RatLess(a, b)
      [] OTHER -> RatLess(SignedSquare(a), SignedSquare(b))

Gt(a, b) == Lt(b, a)

\* a + b of floats that are NaN, infinite or rational
Add(a, b) ==
    CASE IsNaN(a) \/ IsNaN(b) -> NaN
      [] IsInf(a) /\ IsInf(b) -> IF a.n = b.n THEN a ELSE NaN
      [] IsInf(a) -> a
      [] IsInf(b) -> b
      [] OTHER -> Rat(a.n * b.d + b.n * a.d, a.d * b.d)

\* a - b of floats; the difference of two unlike irrational values stays symbolic
Sub(a, b) ==
    CASE IsNaN(a) \/ IsNaN(b) -> NaN
      [] IsInf(a) /\ IsInf(b) -> IF a.n = b.n THEN NaN ELSE a
      [] IsInf(a) -> a
      [] IsInf(b) -> Neg(b)
      [] IsRat(a) /\ IsRat(b) -> Rat(a.n * b.d - b.n * a.d, a.d * b.d)
      [] b = Zero -> a
      [] a = Zero -> Neg(b)
      [] IsSurd(a) /\ IsSurd(b) /\ a = b -> Zero
      [] IsSurd(a) /\ IsSurd(b) /\ a = Neg(b) -> [Rat(4 * a.n, a.d) EXCEPT !.k = "surd"]
      [] OTHER -> [k |-> "sub", a |-> a, b |-> b, src |-> <<>>, mag |-> 0]

\* a * b of rationals
Mul(a, b) == Rat(a.n * b.n, a.d * b.d)

\* a / b of floats that are NaN or rational: x/0 is an infinity, 0/0 is NaN
FDiv(a, b) ==
    CASE IsNaN(a) \/ IsNaN(b) -> NaN
      [] b.n = 0 -> IF a.n = 0 THEN NaN ELSE IF a.n > 0 THEN PosInf ELSE NegInf
      [] OTHER -> Rat(a.n * b.d, a.d * b.n)

IsSquare(x) == \E r \in 0..x : r * r = x

ISqrt(x) == CHOOSE r \in 0..x : r * r = x

\* the square root of a rational q >= 0
Sqrt(q) ==
    IF IsSquare(q.n) /\ IsSquare(q.d) THEN Rat(ISqrt(q.n), ISqrt(q.d))
    ELSE [k |-> "surd", n |-> q.n, d |-> q.d, src |-> <<>>, mag |-> 0]

\* two doubles computed from different operands whose real numbers are closer
\* than their rounding bounds: the real numbers do not tell their order.  With
\* a square root the squares are compared, (a - b)(a + b) with a + b below
\* the two bounds together.
RoundingTie(a, b) ==
    /\ a.k \in {"rat", "surd"}
    /\ b.k \in {"rat", "surd"}
    /\ a.src # b.src
    /\ IF IsRat(a) /\ IsRat(b)
       THEN Within(a, b, a.mag + b.mag)
       ELSE Within(SignedSquare(a), SignedSquare(b),
                   (a.mag + b.mag) * (a.mag + b.mag))

\* the possible signs of double(a) - double(b) that the real numbers leave open
RoundingSigns(a, b) == IF RoundingTie(a, b) THEN {-1, 0, 1} ELSE {0}

\* a < b of two doubles, o the sign of double(a) - double(b) where rounding decides
FLess(a, b, o) == IF RoundingTie(a, b) THEN o < 0 ELSE Lt(Exact(a), Exact(b))

\* a > b of two doubles
FGreater(a, b, o) == IF RoundingTie(a, b) THEN o > 0 ELSE Lt(Exact(b), Exact(a))

\* a - b of two doubles
FSub(a, b, o) == IF RoundingTie(a, b) THEN Tiny(o) ELSE Sub(Exact(a), Exact(b))

----------------------------------------------------------------------------
(* pandas Series operations used by the metrics *)

\* Series.diff() of an integer column: NaN first, then x[i] - x[i-1]
Diff(xs) == [i \in 1..Len(xs) |-> IF i = 1 THEN NaN ELSE Rat(xs[i] - xs[i - 1], 1)]

\* Series.diff() of a float column
DiffF(vs) == [i \in 1..Len(vs) |-> IF i = 1 THEN NaN ELSE Sub(vs[i], vs[i - 1])]

\* the values of a Series that a reduction sees (skipna=True), in order
RECURSIVE DropNaN(_)
DropNaN(vs) ==
    IF vs = <<>> THEN <<>>
    ELSE IF IsNaN(Head(vs)) THEN DropNaN(Tail(vs))
    ELSE <<Head(vs)>> \o DropNaN(Tail(vs))

RECURSIVE Sum(_)
Sum(vs) == IF vs = <<>> THEN Zero ELSE Add(Head(vs), Sum(Tail(vs)))

\* Series.mean(): NaN of an empty Series, else sum / count of the non-NaN values
Mean(vs) ==
    LET xs == DropNaN(vs)
        s == Sum(xs)
    IN  IF xs = <<>> THEN NaN
        ELSE IF IsRat(s) THEN Rat(s.n, s.d * Len(xs))
        ELSE s

RECURSIVE SumSqDev(_, _)
SumSqDev(xs, m) ==
    IF xs = <<>> THEN Zero
    ELSE LET dv == Sub(Head(xs), m)
         IN  Add(Mul(dv, dv), SumSqDev(Tail(xs), m))

\* Series.std(): sample standard deviation (ddof = 1) of the non-NaN values,
\* NaN when fewer than two of them remain
Std(vs) ==
    LET xs == DropNaN(vs)
        ss == SumSqDev(xs, Mean(xs))
    IN  IF Len(xs) < 2 THEN NaN
        ELSE Sqrt(Rat(ss.n, ss.d * (Len(xs) - 1)))

\* the entries of vs at the indices where mask is True, in order
RECURSIVE Select(_, _)
Select(vs, mask) ==
    IF vs = <<>> THEN <<>>
    ELSE IF Head(mask) THEN <<Head(vs)>> \o Select(Tail(vs), Tail(mask))
    ELSE Select(Tail(vs), Tail(mask))

\* the largest of a sequence of integers that are not negative, 0 for none
RECURSIVE MaxOf(_)
MaxOf(xs) ==
    IF xs = <<>> THEN 0
    ELSE LET m == MaxOf(Tail(xs)) IN IF Head(xs) > m THEN Head(xs) ELSE m

AnyTrue(mask) == \E i \in 1..Len(mask) : mask[i]

Column(t, f) == [i \in 1..Len(t) |-> t[i][f]]

----------------------------------------------------------------------------
(* The four style metrics.  A telemetry frame is a sequence of readings     *)
(* [Time, Speed, Throttle, Brake, nGear]; Time is in milliseconds.          *)

ThrottleCornerLimit == 50

SpeedDeltaLimit == 1

KmhPerMsTenths == 36

GravityHundredths == 981

SecondsPerMinute == 60

\* Timedelta.total_seconds() of a time difference in milliseconds
TotalSeconds(v) == IF IsNaN(v) THEN NaN ELSE Rat(v.n, v.d * 1000)

\* (telemetry['Brake'] > 0) & (telemetry['Speed'].diff() < 0)
braking_mask(t) ==
    LET dSpeed == Diff(Column(t, "Speed"))
    IN  [i \in 1..Len(t) |-> t[i].Brake > 0 /\ Lt(dSpeed[i], Zero)]

\* telemetry['Speed'] / 3.6
speed_ms(t) == [i \in 1..Len(t) |-> Rat(t[i].Speed * 10, KmhPerMsTenths)]

\* speed_ms.diff() / telemetry['Time'].diff().dt.total_seconds(); an entry is
\* computed from the two speeds and the time difference
acceleration(t) ==
    LET dSpeed == DiffF(speed_ms(t))
        dTime == Diff(Column(t, "Time"))
    IN  [i \in 1..Len(t) |->
            IF i = 1 THEN NaN
            ELSE LET a == FDiv(dSpeed[i], TotalSeconds(dTime[i]))
                 IN  RoundedUnlessZero(a, <<t[i - 1].Speed, t[i].Speed, dTime[i].n>>,
                                       IF IsRat(a) THEN Magnitude(a) ELSE 0)]

\* -acceleration / 9.81
GForce(a) ==
    IF IsRat(a)
    THEN LET g == Rat(-a.n * 100, a.d * GravityHundredths)
         IN  RoundedUnlessZero(g, a.src, Magnitude(g))
    ELSE Neg(a)

calculate_braking_aggressiveness(t) ==
    LET mask == braking_mask(t)
        acc == acceleration(t)
        g == Select([i \in 1..Len(t) |-> GForce(acc[i])], mask)
    IN  IF ~AnyTrue(mask) THEN Zero
        ELSE Rounded(Mean(g), [i \in 1..Len(g) |-> g[i].src],
                     MaxOf([i \in 1..Len(g) |-> g[i].mag]))

\* telemetry['Throttle'].diff().abs()
throttle_changes(t) ==
    LET dThrottle == Diff(Column(t, "Throttle"))
    IN  [i \in 1..Len(t) |->
            IF IsNaN(dThrottle[i]) THEN NaN ELSE Rat(Abs(dThrottle[i].n), 1)]

calculate_throttle_smoothness(t) ==
    LET changes == DropNaN(throttle_changes(t))
    IN  RoundedUnlessZero(Std(throttle_changes(t)),
                          [i \in 1..Len(changes) |-> changes[i].n],
                          2 * (1 + MaxOf([i \in 1..Len(changes) |-> changes[i].n])))

\* corner_mask with the missing first difference counted as a speed change
corner_mask_first_reading(t) ==
    [i \in 1..Len(t) |->
        /\ t[i].Throttle < ThrottleCornerLimit
        /\ (i = 1 \/ Abs(t[i].Speed - t[i - 1].Speed) > SpeedDeltaLimit)]

\* (telemetry['Throttle'] < 50) & (abs(telemetry['Speed'].diff()) > 1)
corner_mask(t) ==
    LET dSpeed == Diff(Column(t, "Speed"))
    IN  [i \in 1..Len(t) |->
            /\ t[i].Throttle < ThrottleCornerLimit
            /\ Gt(IF IsNaN(dSpeed[i]) THEN NaN ELSE Rat(Abs(dSpeed[i].n), 1),
                  Rat(SpeedDeltaLimit, 1))]

\* telemetry.loc[corner_mask, 'Speed']
corner_speeds(t) == Select(Column(t, "Speed"), corner_mask(t))

calculate_cornering_consistency(t) ==
    IF ~AnyTrue(corner_mask(t)) THEN Zero
    ELSE RoundedUnlessZero(
             Std([i \in 1..Len(corner_speeds(t)) |-> Rat(corner_speeds(t)[i], 1)]),
             corner_speeds(t), 2 * (1 + MaxOf(corner_speeds(t))))

\* (telemetry['nGear'].diff() != 0).sum(): NaN != 0 is True
gear_changes(t) ==
    LET dGear == Diff(Column(t, "nGear"))
    IN  Cardinality({i \in 1..Len(t) : dGear[i] # Zero})

calculate_gear_shift_frequency(t) ==
    IF t = <<>> THEN Zero    \* .iloc[-1] raises IndexError, caught by the except
    ELSE LET elapsed == t[Len(t)].Time - t[1].Time
         IN  IF elapsed > 0
             THEN LET f == Rat(gear_changes(t) * SecondsPerMinute * 1000, elapsed)
                  IN  RoundedUnlessZero(f, <<gear_changes(t), elapsed>>, Magnitude(f))
             ELSE Zero

\* the metrics dictionary of analyze_driver_style
StyleMetrics(t) ==
    [braking_aggressiveness |-> calculate_braking_aggressiveness(t),
     throttle_smoothness |-> calculate_throttle_smoothness(t),
     cornering_consistency |-> calculate_cornering_consistency(t),
     gear_shift_frequency |-> calculate_gear_shift_frequency(t)]

----------------------------------------------------------------------------
(* The telemetry provider (FastF1) as get_driver_telemetry sees it.  For    *)
(* each driver code a session answers in one of four ways: a call raises,   *)
(* pick_driver returns no laps, pick_fastest returns an empty lap, or the   *)
(* fastest lap has a lap time and a telemetry frame (possibly empty).       *)
(* None is the empty sequence and a value v is <<v>>.                       *)

\* times [0,0.2,0.4,0.6,0.8] s, speed [100,95,90,92,92], brake [1,1,1,0,0],
\* throttle [0,0,0,50,80], gear [3,3,3,4,4]
ScenarioLap ==
    << [Time |-> 0,   Speed |-> 100, Throttle |-> 0,  Brake |-> 1, nGear |-> 3],
       [Time |-> 200, Speed |-> 95,  Throttle |-> 0,  Brake |-> 1, nGear |-> 3],
       [Time |-> 400, Speed |-> 90,  Throttle |-> 0,  Brake |-> 1, nGear |-> 3],
       [Time |-> 600, Speed |-> 92,  Throttle |-> 50, Brake |-> 0, nGear |-> 4],
       [Time |-> 800, Speed |-> 92,  Throttle |-> 80, Brake |-> 0, nGear |-> 4] >>

\* a lap in constant gear with two readings sharing one time stamp
OtherLap ==
    << [Time |-> 0,   Speed |-> 100, Throttle |-> 20, Brake |-> 0, nGear |-> 5],
       [Time |-> 300, Speed |-> 97,  Throttle |-> 20, Brake |-> 1, nGear |-> 5],
       [Time |-> 300, Speed |-> 94,  Throttle |-> 60, Brake |-> 1, nGear |-> 5],
       [Time |-> 600, Speed |-> 94,  Throttle |-> 60, Brake |-> 0, nGear |-> 5] >>

\* a lap whose braking decelerations are those of the example lap, from other
\* speeds: 110, 105, 100 km/h at 0, 0.2, 0.4 s
TieLap ==
    << [Time |-> 0,   Speed |-> 110, Throttle |-> 0, Brake |-> 1, nGear |-> 6],
       [Time |-> 200, Speed |-> 105, Throttle |-> 0, Brake |-> 1, nGear |-> 6],
       [Time |-> 400, Speed |-> 100, Throttle |-> 0, Brake |-> 1, nGear |-> 6] >>

\* a frame whose third reading carries an earlier time stamp: its two
\* decelerations are opposite numbers
CancelLap ==
    << [Time |-> 0,   Speed |-> 110, Throttle |-> 0, Brake |-> 1, nGear |-> 6],
       [Time |-> 200, Speed |-> 105, Throttle |-> 0, Brake |-> 1, nGear |-> 6],
       [Time |-> 0,   Speed |-> 100, Throttle |-> 0, Brake |-> 1, nGear |-> 6] >>

DriverOrder == <<"ALO", "HAM", "VER">>

DriverCodes == {DriverOrder[i] : i \in 1..Len(DriverOrder)}

Raises == [kind |-> "raises", LapTime |-> 0, tel |-> <<>>]

NoLaps == [kind |-> "no_laps", LapTime |-> 0, tel |-> <<>>]

FastestEmpty == [kind |-> "fastest_empty", LapTime |-> 0, tel |-> <<>>]

WithTelemetry(lapTime, t) == [kind |-> "telemetry", LapTime |-> lapTime, tel |-> t]

ProviderOutcomes ==
    {Raises, NoLaps, FastestEmpty,
     WithTelemetry(90, <<>>), WithTelemetry(80, ScenarioLap), WithTelemetry(81, TieLap)}

\* a session whose lap data was loaded: session.laps is a frame
LoadedSessions == {[laps |-> TRUE, of |-> f] : f \in [DriverCodes -> ProviderOutcomes]}

\* a session that loaded without lap data: reading session.laps raises
LapsNotLoaded == [laps |-> FALSE, of |-> [d \in DriverCodes |-> Raises]]

Sessions == LoadedSessions \cup {LapsNotLoaded}

\* get_driver_telemetry returns a bare None (shape "none") or a pair
BareNone == [shape |-> "none", telemetry |-> <<>>, lap |-> <<>>, errors |-> <<>>]

\* the except branch: st.error and the pair (None, None)
CaughtPair ==
    [shape |-> "pair", telemetry |-> <<>>, lap |-> <<>>, errors |-> <<"telemetry_error">>]

get_driver_telemetry(s, driver_code) ==
    IF s = <<>> THEN CaughtPair    \* None has no attribute laps
    ELSE IF ~s[1].laps THEN CaughtPair    \* session.laps raises inside the try
    ELSE LET o == s[1].of[driver_code]
         IN  CASE o.kind = "raises" -> CaughtPair
               [] o.kind = "no_laps" -> BareNone
               [] o.kind = "fastest_empty" -> BareNone
               [] OTHER -> [shape |-> "pair", telemetry |-> <<o.tel>>,
                            lap |-> <<[LapTime |-> o.LapTime]>>, errors |-> <<>>]

\* analyze_driver_style: raised is the TypeError of unpacking a bare None;
\* ret is None or <<[metrics, lap]>>
analyze_driver_style(s, driver_code) ==
    LET r == get_driver_telemetry(s, driver_code)
    IN  IF r.shape = "none"
        THEN [raised |-> TRUE, ret |-> <<>>, errors |-> r.errors]
        ELSE IF r.telemetry = <<>> \/ r.telemetry[1] = <<>>
        THEN [raised |-> FALSE, ret |-> <<>>, errors |-> r.errors]
        ELSE [raised |-> FALSE,
              ret |-> <<[metrics |-> StyleMetrics(r.telemetry[1]), lap |-> r.lap[1]]>>,
              errors |-> r.errors]

----------------------------------------------------------------------------
(* The comparison main() displays for two metrics dictionaries *)

MetricNames ==
    {"braking_aggressiveness", "throttle_smoothness",
     "cornering_consistency", "gear_shift_frequency"}

\* for each metric, the sign of double(m1) - double(m2) where the two values
\* are one real number computed from different operands, and 0 elsewhere
Roundings(m1, m2) ==
    {o \in [MetricNames -> {-1, 0, 1}] :
        \A name \in MetricNames : o[name] \in RoundingSigns(m1[name], m2[name])}

\* the signs of Roundings with the two dictionaries exchanged
Swapped(o) == [name \in MetricNames |-> -o[name]]

\* the delta of a metric card: driver 1's value minus driver 2's
MetricDelta(m1, m2, name, o) == FSub(m1[name], m2[name], o[name])

\* braking_leader with >= for >
braking_leader_on_ties(m1, m2, d1, d2, o) ==
    IF ~FLess(m1.braking_aggressiveness, m2.braking_aggressiveness,
              o.braking_aggressiveness)
    THEN d1 ELSE d2

braking_leader(m1, m2, d1, d2, o) ==
    IF FGreater(m1.braking_aggressiveness, m2.braking_aggressiveness,
                o.braking_aggressiveness)
    THEN d1 ELSE d2

smooth_leader(m1, m2, d1, d2, o) ==
    IF FLess(m1.throttle_smoothness, m2.throttle_smoothness, o.throttle_smoothness)
    THEN d1 ELSE d2

\* the page for driver 1 and driver 2, o the signs that rounding decides
Comparison(m1, m2, d1, d2, o) ==
    [deltas |-> [name \in MetricNames |-> MetricDelta(m1, m2, name, o)],
     braking_leader |-> braking_leader(m1, m2, d1, d2, o),
     smooth_leader |-> smooth_leader(m1, m2, d1, d2, o)]

----------------------------------------------------------------------------
(* Specification SpecMetrics: a telemetry frame is built reading by reading *)
(* from bounded sets, or is the five-reading example lap, and the four      *)
(* metrics are then computed from it.                                       *)

MaxLen == 3

SpeedValues == {90, 95}

ThrottleValues == {0, 50}

BrakeValues == {0, 1}

GearValues == {3, 4}

TimeSteps == {0, 200}

IdleMetrics ==
    /\ telemetry = <<>>
    /\ metrics = <<>>

IdleProfile ==
    /\ argSession = <<>>
    /\ argDriver = DriverOrder[1]
    /\ profileOut = <<>>

IdleCompare ==
    /\ profileA = StyleMetrics(<<>>)
    /\ profileB = StyleMetrics(<<>>)
    /\ rounding = [name \in MetricNames |-> 0]
    /\ cmpAB = <<>>
    /\ cmpBA = <<>>

\* the first script run of a browser session: st.session_state is empty
IdleMain ==
    /\ session = <<>>
    /\ drivers = <<>>
    /\ driver1 = <<>>
    /\ driver2 = <<>>
    /\ pc = "idle"
    /\ run = "start"
    /\ result1 = <<>>
    /\ result2 = <<>>
    /\ calls = <<>>
    /\ returned = <<>>
    /\ errors = <<>>
    /\ rendered = {}
    /\ comparison = <<>>
    /\ uncaught = FALSE

InitMetrics == IdleMetrics /\ IdleProfile /\ IdleCompare /\ IdleMain

\* the provider appends one reading; time never decreases
AppendReading ==
    /\ metrics = <<>>
    /\ Len(telemetry) < MaxLen
    /\ \E dt \in TimeSteps, sp \in SpeedValues, th \in ThrottleValues,
          br \in BrakeValues, g \in GearValues :
          /\ telemetry = <<>> => dt = 0
          /\ telemetry' = Append(telemetry,
                [Time |-> IF telemetry = <<>> THEN 0
                          ELSE telemetry[Len(telemetry)].Time + dt,
                 Speed |-> sp, Throttle |-> th, Brake |-> br, nGear |-> g])
    /\ UNCHANGED <<metrics, profileVars, compareVars, mainVars>>

LoadScenarioLap ==
    /\ metrics = <<>>
    /\ telemetry = <<>>
    /\ telemetry' = ScenarioLap
    /\ UNCHANGED <<metrics, profileVars, compareVars, mainVars>>

ComputeMetrics ==
    /\ metrics = <<>>
    /\ metrics' = <<StyleMetrics(telemetry)>>
    /\ UNCHANGED <<telemetry, profileVars, compareVars, mainVars>>

NextMetrics == AppendReading \/ LoadScenarioLap \/ ComputeMetrics

SpecMetrics == InitMetrics /\ [][NextMetrics]_vars

----------------------------------------------------------------------------
(* Specification SpecProfile: analyze_driver_style applied to any session   *)
(* (or None) and any driver code.                                           *)

InitProfile ==
    /\ argSession \in {<<>>} \cup {<<s>> : s \in Sessions}
    /\ argDriver \in DriverCodes
    /\ profileOut = <<>>
    /\ IdleMetrics /\ IdleCompare /\ IdleMain

ProfileDriver ==
    /\ profileOut = <<>>
    /\ profileOut' = <<analyze_driver_style(argSession, argDriver)>>
    /\ UNCHANGED <<argSession, argDriver, metricsVars, compareVars, mainVars>>

NextProfile == ProfileDriver

SpecProfile == InitProfile /\ [][NextProfile]_vars

----------------------------------------------------------------------------
(* Specification SpecCompare: the comparison of two metrics dictionaries,   *)
(* with the drivers in either order.  A metric ranges over the values the   *)
(* metric function takes on the sample laps and their prefixes;             *)
(* rounding is the order of the doubles of two values that are one real     *)
(* number.                                                                  *)

SampleLaps ==
    {SubSeq(ScenarioLap, 1, n) : n \in 0..Len(ScenarioLap)}
        \cup {SubSeq(TieLap, 1, n) : n \in 0..Len(TieLap)}
        \cup {OtherLap, CancelLap}

MetricRange(name) == {StyleMetrics(t)[name] : t \in SampleLaps}

\* the two metrics that name a leader vary freely; the other two are those of
\* one sample lap
Profiles ==
    {[braking_aggressiveness |-> b,
      throttle_smoothness |-> th,
      cornering_consistency |-> StyleMetrics(t).cornering_consistency,
      gear_shift_frequency |-> StyleMetrics(t).gear_shift_frequency] :
        b \in MetricRange("braking_aggressiveness"),
        th \in MetricRange("throttle_smoothness"),
        t \in SampleLaps}

InitCompare ==
    /\ profileA \in Profiles
    /\ profileB \in Profiles
    /\ rounding \in Roundings(profileA, profileB)
    /\ cmpAB = <<>>
    /\ cmpBA = <<>>
    /\ IdleMetrics /\ IdleProfile /\ IdleMain

\* the page is computed with ALO in slot 1 and HAM in slot 2, and the other way round
CompareBothOrders ==
    /\ cmpAB = <<>>
    /\ cmpAB' = <<Comparison(profileA, profileB, "ALO", "HAM", rounding)>>
    /\ cmpBA' = <<Comparison(profileB, profileA, "HAM", "ALO", Swapped(rounding))>>
    /\ UNCHANGED <<profileA, profileB, rounding, metricsVars, profileVars, mainVars>>

NextCompare == CompareBothOrders

SpecCompare == InitCompare /\ [][NextCompare]_vars

----------------------------------------------------------------------------
(* Specification Spec: the Streamlit page.  Every interaction reruns        *)
(* main(); the run that serves the Analyze button is split at its calls of  *)
(* analyze_driver_style.  session and drivers are st.session_state; errors, *)
(* rendered and comparison are what the current run has put on the page;    *)
(* uncaught says that an exception left main().                             *)

\* sorted(session.laps['Driver'].unique()): the drivers that have laps
SortedDrivers(s) == SelectSeq(DriverOrder, LAMBDA d : s.of[d].kind # "no_laps")

\* the value of a selectbox with a default index: None for no options
DefaultChoice(options, index) ==
    IF options = <<>> THEN <<>> ELSE <<options[index + 1]>>

\* index=1 if len(st.session_state['drivers']) > 1 else 0
Driver2Index(options) == IF Len(options) > 1 THEN 1 ELSE 0

\* a selectbox keeps the user's choice while it is one of its options
WidgetValues(old, options, index) ==
    {DefaultChoice(options, index)}
        \cup {old : i \in {j \in 1..Len(options) : old = <<options[j]>>}}

ComparisonSections == {"header", "context", "metric_cards", "charts", "lap_times", "summary"}

\* a script run starts with an empty page
ClearPage ==
    /\ result1' = <<>>
    /\ result2' = <<>>
    /\ calls' = <<>>
    /\ returned' = <<>>
    /\ rendered' = {}
    /\ comparison' = <<>>

\* the last run drew the Load Session Data button: it did not return at the
\* schedule failure
LoadButtonShown == run # "schedule_error"

\* the last run drew the driver selectboxes and the Analyze Drivers button: the
\* driver list was stored and the run reached line 265
SelectboxesShown ==
    /\ drivers # <<>>
    /\ run # "schedule_error"
    /\ ~(run = "load" /\ uncaught)

\* the driver selectboxes over the list options (None: no list is stored and
\* none is drawn).  A selectbox drawn by the last run over the same options
\* keeps its value; one that was not drawn may have lost it.
DriverSelectboxes(options) ==
    IF options = <<>> \/ (SelectboxesShown /\ options = drivers)
    THEN UNCHANGED widgetVars
    ELSE /\ driver1' \in WidgetValues(driver1, options[1], 0)
         /\ driver2' \in WidgetValues(driver2, options[1], Driver2Index(options[1]))

\* fastf1.get_event_schedule raises: main() reports it and returns
ScheduleFailure ==
    /\ pc = "idle"
    /\ run' = "schedule_error"
    /\ ClearPage
    /\ uncaught' = FALSE
    /\ errors' = <<"schedule_error">>
    /\ UNCHANGED <<stateVars, widgetVars, pc, metricsVars, profileVars, compareVars>>

\* a run that no button started: the user changed the season, the event or
\* the session type
Rerun ==
    /\ pc = "idle"
    /\ run' = "rerun"
    /\ ClearPage
    /\ uncaught' = FALSE
    /\ errors' = <<>>
    /\ DriverSelectboxes(drivers)
    /\ UNCHANGED <<stateVars, pc, metricsVars, profileVars, compareVars>>

\* load_session_data: the loaded session, or st.error and None
load_session_data(loaded) ==
    [session |-> loaded, errors |-> IF loaded = <<>> THEN <<"load_error">> ELSE <<>>]

\* the Load Session Data button, then the driver selectboxes of the same run.
\* The session is stored first; session.laps at line 260 is outside any try,
\* and when it raises the exception leaves main(): the driver list is not
\* written and no selectbox is drawn.
LoadSessionData ==
    /\ pc = "idle"
    /\ LoadButtonShown
    /\ \E loaded \in {<<>>} \cup {<<s>> : s \in Sessions} :
          LET r == load_session_data(loaded)
          IN  /\ session' = r.session
              /\ errors' = r.errors
              /\ IF r.session # <<>> /\ ~r.session[1].laps
                 THEN /\ uncaught' = TRUE
                      /\ UNCHANGED <<drivers, widgetVars>>
                 ELSE LET newDrivers == IF r.session # <<>>
                                        THEN <<SortedDrivers(r.session[1])>>
                                        ELSE drivers
                      IN  /\ uncaught' = FALSE
                          /\ drivers' = newDrivers
                          /\ DriverSelectboxes(newDrivers)
    /\ run' = "load"
    /\ ClearPage
    /\ UNCHANGED <<pc, metricsVars, profileVars, compareVars>>

\* the user picks another driver in one of the two selectboxes
SelectDriver ==
    /\ pc = "idle"
    /\ SelectboxesShown
    /\ \E i \in 1..Len(drivers[1]) :
          \/ driver1' = <<drivers[1][i]>> /\ UNCHANGED driver2
          \/ driver2' = <<drivers[1][i]>> /\ UNCHANGED driver1
    /\ run' = "select"
    /\ ClearPage
    /\ uncaught' = FALSE
    /\ errors' = <<>>
    /\ UNCHANGED <<stateVars, pc, metricsVars, profileVars, compareVars>>

\* ClickAnalyze without the check that the two drivers differ
ClickAnalyze_unchecked ==
    /\ pc = "idle"
    /\ SelectboxesShown
    /\ run' = "analyze"
    /\ ClearPage
    /\ uncaught' = FALSE
    /\ errors' = <<>>
    /\ pc' = "analyze1"
    /\ UNCHANGED <<stateVars, widgetVars, metricsVars, profileVars, compareVars>>

\* the Analyze Drivers button: the check that the two drivers differ
ClickAnalyze ==
    /\ pc = "idle"
    /\ SelectboxesShown
    /\ run' = "analyze"
    /\ ClearPage
    /\ uncaught' = FALSE
    /\ IF driver1 = driver2
       THEN errors' = <<"same_driver">> /\ pc' = "idle"
       ELSE errors' = <<>> /\ pc' = "analyze1"
    /\ UNCHANGED <<stateVars, widgetVars, metricsVars, profileVars, compareVars>>

\* driver1_result = analyze_driver_style(session, driver1)
AnalyzeDriver1 ==
    /\ pc = "analyze1"
    /\ LET a == analyze_driver_style(session, driver1[1])
       IN  /\ calls' = Append(calls, driver1[1])
           /\ errors' = errors \o a.errors
           /\ IF a.raised
              THEN /\ uncaught' = TRUE
                   /\ pc' = "idle"
                   /\ UNCHANGED <<result1, returned>>
              ELSE /\ result1' = <<a.ret>>
                   /\ returned' = Append(returned, driver1[1])
                   /\ pc' = "analyze2"
                   /\ UNCHANGED uncaught
    /\ UNCHANGED <<stateVars, widgetVars, run, result2, rendered, comparison,
                   metricsVars, profileVars, compareVars>>

\* driver2_result = analyze_driver_style(session, driver2)
AnalyzeDriver2 ==
    /\ pc = "analyze2"
    /\ LET a == analyze_driver_style(session, driver2[1])
       IN  /\ calls' = Append(calls, driver2[1])
           /\ errors' = errors \o a.errors
           /\ IF a.raised
              THEN /\ uncaught' = TRUE
                   /\ pc' = "idle"
                   /\ UNCHANGED <<result2, returned>>
              ELSE /\ result2' = <<a.ret>>
                   /\ returned' = Append(returned, driver2[1])
                   /\ pc' = "show"
                   /\ UNCHANGED uncaught
    /\ UNCHANGED <<stateVars, widgetVars, run, result1, rendered, comparison,
                   metricsVars, profileVars, compareVars>>

\* ShowResults with the page header written before the None check
ShowResults_header_first ==
    /\ pc = "show"
    /\ pc' = "idle"
    /\ IF result1[1] = <<>> \/ result2[1] = <<>>
       THEN /\ errors' = Append(errors, "analysis_failed")
            /\ rendered' = {"header"}
            /\ UNCHANGED comparison
       ELSE /\ rendered' = ComparisonSections
            /\ \E o \in Roundings(result1[1][1].metrics, result2[1][1].metrics) :
                  comparison' = <<Comparison(result1[1][1].metrics,
                                             result2[1][1].metrics,
                                             driver1[1], driver2[1], o)>>
            /\ UNCHANGED errors
    /\ UNCHANGED <<stateVars, widgetVars, run, result1, result2, calls, returned,
                   uncaught, metricsVars, profileVars, compareVars>>

\* the None check on the two results, then the whole comparison page
ShowResults ==
    /\ pc = "show"
    /\ pc' = "idle"
    /\ IF result1[1] = <<>> \/ result2[1] = <<>>
       THEN /\ errors' = Append(errors, "analysis_failed")
            /\ UNCHANGED <<rendered, comparison>>
       ELSE /\ rendered' = ComparisonSections
            /\ \E o \in Roundings(result1[1][1].metrics, result2[1][1].metrics) :
                  comparison' = <<Comparison(result1[1][1].metrics,
                                             result2[1][1].metrics,
                                             driver1[1], driver2[1], o)>>
            /\ UNCHANGED errors
    /\ UNCHANGED <<stateVars, widgetVars, run, result1, result2, calls, returned,
                   uncaught, metricsVars, profileVars, compareVars>>

Init == IdleMain /\ IdleMetrics /\ IdleProfile /\ IdleCompare

Next ==
    \/ ScheduleFailure
    \/ Rerun
    \/ LoadSessionData
    \/ SelectDriver
    \/ ClickAnalyze
    \/ AnalyzeDriver1
    \/ AnalyzeDriver2
    \/ ShowResults

Spec == Init /\ [][Next]_vars

----------------------------------------------------------------------------
(* Properties of the metric functions, checked under SpecMetrics *)

Computed == metrics # <<>>

AllMetricsZero(m) == \A name \in MetricNames : m[name] = Zero

\* C1: a telemetry frame with fewer than 2 readings gives exactly 0.0 for each
\* of the four metrics.
C1_ShortFramesGiveZero ==
    (Computed /\ Len(telemetry) < 2) => AllMetricsZero(metrics[1])

\* a braking instant (brake applied, speed below the previous reading's) that
\* shares its time stamp with the previous reading
ZeroDeltaBrakingInstant(t) ==
    \E i \in 2..Len(t) :
        /\ t[i].Brake > 0
        /\ t[i].Speed < t[i - 1].Speed
        /\ t[i].Time = t[i - 1].Time

\* the readings after the first with throttle below 50 whose speed differs
\* from the previous reading's by more than 1
CorneringInstants(t) ==
    {i \in 2..Len(t) : t[i].Throttle < 50 /\ Abs(t[i].Speed - t[i - 1].Speed) > 1}

ElapsedTime(t) == IF t = <<>> THEN 0 ELSE t[Len(t)].Time - t[1].Time

\* C3: in each zero-denominator or too-small-selection case the metric is
\* exactly 0.0: braking with a braking instant at a zero time delta, cornering
\* with exactly one cornering instant, throttle smoothness with fewer than 2
\* throttle differences, gear shift frequency with no elapsed time.
C3_DegenerateCasesGiveZero ==
    Computed =>
        /\ ZeroDeltaBrakingInstant(telemetry)
              => metrics[1].braking_aggressiveness = Zero
        /\ Cardinality(CorneringInstants(telemetry)) = 1
              => metrics[1].cornering_consistency = Zero
        /\ Len(telemetry) < 3
              => metrics[1].throttle_smoothness = Zero
        /\ ElapsedTime(telemetry) = 0
              => metrics[1].gear_shift_frequency = Zero

\* the readings after the first whose gear differs from the previous reading's
ShiftInstants(t) == {i \in 2..Len(t) : t[i].nGear # t[i - 1].nGear}

\* C4: the gear shift frequency is the number of readings i >= 2 whose gear
\* differs from reading i-1, divided by the elapsed minutes (0.0 when no time
\* elapsed); so it is 0.0 in constant gear, and 75 for the example lap.
C4_ShiftsPerMinute ==
    Computed =>
        /\ Exact(metrics[1].gear_shift_frequency) =
              IF ElapsedTime(telemetry) > 0
              THEN Rat(Cardinality(ShiftInstants(telemetry)) * 60000,
                       ElapsedTime(telemetry))
              ELSE Zero
        /\ ShiftInstants(telemetry) = {} => metrics[1].gear_shift_frequency = Zero
        /\ telemetry = ScenarioLap
              => Exact(metrics[1].gear_shift_frequency) = Rat(75, 1)

\* the speeds at a set of instants, in time order, as floats
RECURSIVE SpeedsAt(_, _, _)
SpeedsAt(t, instants, i) ==
    IF i > Len(t) THEN <<>>
    ELSE (IF i \in instants THEN <<Rat(t[i].Speed, 1)>> ELSE <<>>)
             \o SpeedsAt(t, instants, i + 1)

\* the cornering consistency is the standard deviation of the speeds at the
\* cornering instants, 0.0 when there are none
CorneringOverInstants ==
    Computed =>
        Exact(metrics[1].cornering_consistency) =
            IF CorneringInstants(telemetry) = {} THEN Zero
            ELSE Std(SpeedsAt(telemetry, CorneringInstants(telemetry), 1))

\* C9 as stated: the standard deviation is taken over the cornering instants,
\* and for the example lap the selected speeds are [100, 95, 90].
C9_AsStated ==
    /\ CorneringOverInstants
    /\ (Computed /\ telemetry = ScenarioLap)
          => corner_speeds(telemetry) = <<100, 95, 90>>

\* C9, amended: the standard deviation is taken over the cornering instants;
\* the first reading has no previous reading and is never one of them, so for
\* the example lap the selected speeds are [95, 90].
C9_CorneringSelection ==
    /\ CorneringOverInstants
    /\ Computed => ~(Len(telemetry) > 0 /\ corner_mask(telemetry)[1])
    /\ (Computed /\ telemetry = ScenarioLap)
          => corner_speeds(telemetry) = <<95, 90>>

C9_Witness ==
    /\ Computed
    /\ telemetry = ScenarioLap
    /\ Exact(metrics[1].cornering_consistency) = Sqrt(Rat(25, 2))

----------------------------------------------------------------------------
(* Property of analyze_driver_style, checked under SpecProfile *)

\* the driver has no laps, or the fastest lap has no telemetry or an empty frame
NothingToAnalyze(s, d) ==
    \/ s = <<>>
    \/ s[1].of[d].kind \in {"raises", "no_laps", "fastest_empty"}
    \/ s[1].of[d].tel = <<>>

\* C2: for a driver without laps or without telemetry on the fastest lap,
\* analyze_driver_style returns None and raises nothing.
C2_NotFoundWithoutException ==
    (profileOut # <<>> /\ NothingToAnalyze(argSession, argDriver))
        => (~profileOut[1].raised /\ profileOut[1].ret = <<>>)

----------------------------------------------------------------------------
(* Properties of the comparison, checked under SpecCompare *)

Compared == cmpAB # <<>>

DeltasNegate ==
    \A name \in MetricNames : cmpBA[1].deltas[name] = Neg(cmpAB[1].deltas[name])

\* C8 as stated: with the drivers swapped every delta is negated and each
\* leader is the same driver, equal values included.
C8_AsStated ==
    Compared =>
        /\ DeltasNegate
        /\ cmpAB[1].braking_leader = cmpBA[1].braking_leader
        /\ cmpAB[1].smooth_leader = cmpBA[1].smooth_leader

\* the leader of a metric in both orders: the driver with the strictly better
\* value, and otherwise (equal or not comparable) the driver in slot 2; the
\* values are compared as the doubles they are
LeaderRule(aBetter, bBetter, leaderAB, leaderBA) ==
    IF aBetter THEN leaderAB = "ALO" /\ leaderBA = "ALO"
    ELSE IF bBetter THEN leaderAB = "HAM" /\ leaderBA = "HAM"
    ELSE leaderAB = "HAM" /\ leaderBA = "ALO"

\* C8, amended: with the drivers swapped every delta is negated; each leader
\* is the same driver in both orders when one value is strictly better
\* (higher braking, lower throttle smoothness), and is the driver in slot 2 of
\* each order when the values are equal or not comparable.  Strictly better
\* and equal are those of the computed doubles.
C8_SwapNegatesDeltas ==
    Compared =>
        /\ DeltasNegate
        /\ LeaderRule(FGreater(profileA.braking_aggressiveness,
                               profileB.braking_aggressiveness,
                               rounding.braking_aggressiveness),
                      FGreater(profileB.braking_aggressiveness,
                               profileA.braking_aggressiveness,
                               -rounding.braking_aggressiveness),
                      cmpAB[1].braking_leader, cmpBA[1].braking_leader)
        /\ LeaderRule(FLess(profileA.throttle_smoothness,
                            profileB.throttle_smoothness,
                            rounding.throttle_smoothness),
                      FLess(profileB.throttle_smoothness,
                            profileA.throttle_smoothness,
                            -rounding.throttle_smoothness),
                      cmpAB[1].smooth_leader, cmpBA[1].smooth_leader)

C8_Witness ==
    /\ Compared
    /\ profileA.braking_aggressiveness = profileB.braking_aggressiveness
    /\ Lt(Exact(profileA.throttle_smoothness), Exact(profileB.throttle_smoothness))
    /\ cmpAB[1].deltas["braking_aggressiveness"] = Zero
    /\ cmpAB[1].braking_leader = "HAM"
    /\ cmpBA[1].braking_leader = "ALO"
    /\ cmpAB[1].smooth_leader = "ALO"
    /\ cmpBA[1].smooth_leader = "ALO"

----------------------------------------------------------------------------
(* Properties of the page, checked under Spec *)

\* analyze_driver_style returned a (metrics, lap) pair
Produced(result) == result # <<>> /\ result[1] # <<>>

\* analyze_driver_style returned None
ReturnedNone(result) == result # <<>> /\ result[1] = <<>>

\* the script run that served the Analyze button has ended
AnalyzeRunEnded == run = "analyze" /\ pc = "idle"

\* C5: the comparison is on the page only if both profiles were produced; when
\* the Analyze run ends without both, nothing of the comparison is on the page
\* and a failure is reported: the message of main() when a result is None, or
\* the exception that left main().
C5_RenderOnlyWithBothProfiles ==
    /\ (rendered # {} \/ comparison # <<>>)
          => (Produced(result1) /\ Produced(result2))
    /\ (AnalyzeRunEnded /\ ~(Produced(result1) /\ Produced(result2)))
          => /\ rendered = {}
             /\ comparison = <<>>
             /\ errors # <<>> \/ uncaught
    /\ (AnalyzeRunEnded /\ (ReturnedNone(result1) \/ ReturnedNone(result2))
            /\ ~uncaught)
          => errors[Len(errors)] = "analysis_failed"

\* one profile was produced, the other was not, and the run reported the failure
C5_Witness ==
    /\ AnalyzeRunEnded
    /\ Produced(result1)
    /\ ReturnedNone(result2)
    /\ rendered = {}
    /\ errors = <<"analysis_failed">>

\* C6: with the same driver in both slots the Analyze run reports the input
\* error and ends without a call of analyze_driver_style and without any
\* comparison output.
C6_SameDriverRejectedFirst ==
    (run = "analyze" /\ driver1 = driver2)
        => /\ pc = "idle"
           /\ errors = <<"same_driver">>
           /\ calls = <<>>
           /\ result1 = <<>> /\ result2 = <<>>
           /\ rendered = {} /\ comparison = <<>>

\* a driver was selected twice in a loaded session and the run was rejected
C6_Witness ==
    /\ run = "analyze"
    /\ session # <<>>
    /\ driver1 # <<>>
    /\ driver1 = driver2
    /\ errors = <<"same_driver">>

\* C7: when the profiling of driver 1 fails, analyze_driver_style is still
\* called for driver 2 and returns.
C7_Driver2StillProfiled ==
    (AnalyzeRunEnded /\ calls # <<>> /\ ~Produced(result1))
        => (Len(calls) = 2 /\ calls[2] = driver2[1] /\ result2 # <<>>)

\* C10: while the driver list is in the session state, the stored session is a
\* loaded session and the list is the list of that session's drivers.
C10_DriverListMatchesSession ==
    drivers # <<>> => (session # <<>> /\ drivers[1] = SortedDrivers(session[1]))

====
